---- MODULE Spec2Model ----
(***************************************************************************)
(* Payment-settlement reconciliation core of the fish marketplace:         *)
(* cart -> checkout_process -> one PaymentTransaction per order line ->    *)
(* mpesa_callback -> order / delivery / ledger state.                      *)
(*                                                                         *)
(* Money is an integer number of cents, a weight an integer number of      *)
(* hundredths of a kilogram (both are 2-decimal Decimals in the source).   *)
(* A callback's settled amount is a JSON number, kept in tenths of a cent  *)
(* so that the quantize() of the handler has something to round.           *)
(***************************************************************************)
EXTENDS Integers, Sequences, FiniteSets, TLC

VARIABLES
    db,         \* the database: every table the core reads or writes.
                \*   buyer: the User checking out; profiles: the
                \*   FishermanProfile of the seller of each catalog item;
                \*   stk_requests: STK pushes sent to the gateway so far;
                \*   fish, cart: by catalog item; orders, deliveries: by order;
                \*   items, logs (FishTransactionLog counts): by order line;
                \*   txns, notifs (SellerNotification), feeLogs (PlatformFeeLog):
                \*   by PaymentTransaction; audits: DeliveryAuditLog rows
    issued,     \* the gateway: number of checkout-request ids it has handed out
    workers,    \* callback requests in flight (concurrent specification only)
    serial      \* db: the database as the same callbacks leave it when run
                \* one at a time in commit order; crossed: whether callbacks
                \* for different charges have overlapped

vars == <<db, issued, workers, serial>>

----------------------------------------------------------------------------
(* Bounds of the model *)

MaxOrders == 2          \* orders ever created
MaxItems == 2           \* order lines ever created, over all orders
MaxReleased == 1        \* STOCK_RELEASED audit entries per order line
MaxAudit == 1           \* DeliveryAuditLog rows
MaxVerifs == 1          \* PhoneVerificationTransaction rows
InitialStock == 200     \* listed weight of each catalog item, in 1/100 kg

FishIds == {"F1", "F2"}
FishOrder == <<"F1", "F2">>
CartWeights(f) == IF f = "F1" THEN {150} ELSE {100}
Methods == {"delivery", "pickup"}
Workers == {"w1", "w2"}

PricePerKg(f) == IF f = "F1" THEN 50000 ELSE 33333

None == <<>>
Some(x) == <<x>>

----------------------------------------------------------------------------
(* Decimal arithmetic *)

\* Truncation of num/den cents.
QuantizeFloor(num, den) == num \div den

\* Decimal.quantize(Decimal('0.01')) of num/den cents under the default
\* context (ROUND_HALF_EVEN), for num >= 0.
Quantize(num, den) ==
    LET q == num \div den
        r == num % den
    IN  IF 2 * r > den \/ (2 * r = den /\ q % 2 = 1) THEN q + 1 ELSE q

\* OrderItem.save: total, fee and net payout of a line.
LineTotal(weight, price) == Quantize(weight * price, 100)
LineFee(total) == Quantize(total * 2, 100)
LineNet(total) == total - LineFee(total)

\* A save that prices the line from the catalog's current price.
OrderItemSaveFromCatalog(d, item) ==
    LET total == LineTotal(item.weight_kg, d.fish[item.fish].price_per_kg)
    IN  [item EXCEPT !.price_per_kg = d.fish[item.fish].price_per_kg,
                     !.total_price = total,
                     !.platform_fee = LineFee(total),
                     !.fisherman_net_payout = LineNet(total)]

\* OrderItem.save on a row of the table d.items: total, fee and net payout
\* are computed again from the row's own weight_kg and price_per_kg, and the
\* whole row is written.
OrderItemSave(d, item) ==
    LET total == LineTotal(item.weight_kg, item.price_per_kg)
    IN  [item EXCEPT !.total_price = total,
                     !.platform_fee = LineFee(total),
                     !.fisherman_net_payout = LineNet(total)]

RECURSIVE SumSeq(_)
SumSeq(s) == IF s = <<>> THEN 0 ELSE Head(s) + SumSeq(Tail(s))

----------------------------------------------------------------------------
(* Model methods *)

\* Fish.is_available
is_available(fishrec) ==
    fishrec.status = "available" /\ fishrec.available_weight > 0

\* A deduction that does not compare the weight with what is available.
reduce_stock_unchecked(fishrec, weight) ==
    [fish |-> [fishrec EXCEPT
                 !.available_weight = @ - weight,
                 !.status = IF fishrec.available_weight - weight <= 0 THEN "sold" ELSE @],
     ok |-> TRUE]

\* Fish.reduce_stock: the listing after the call, and the value returned.
reduce_stock(fishrec, weight) ==
    IF weight <= fishrec.available_weight
    THEN LET left == fishrec.available_weight - weight
         IN  [fish |-> [fishrec EXCEPT !.available_weight = left,
                                       !.status = IF left <= 0 THEN "sold" ELSE @],
              ok |-> TRUE]
    ELSE [fish |-> fishrec, ok |-> FALSE]

ItemsOf(d, o) == {i \in DOMAIN d.items : d.items[i].order = o}
TxnsOf(d, o) == {t \in DOMAIN d.txns : d.txns[t].order = o}

RECURSIVE DeductAll(_, _, _)
DeductAll(fishTable, d, todo) ==
    IF todo = {} THEN fishTable
    ELSE LET i == CHOOSE x \in todo : \A y \in todo : x <= y
             f == d.items[i].fish
         IN  DeductAll([fishTable EXCEPT ![f] = reduce_stock(@, d.items[i].weight_kg).fish],
                       d, todo \ {i})

\* Order.mark_as_paid: FULLY_PAID, then reduce_stock for every line (the value
\* reduce_stock returns is dropped). paid_runs[o] records how many times the
\* method has run for order o.
mark_as_paid(d, o) ==
    [d EXCEPT !.orders[o].status = "FULLY_PAID",
              !.fish = DeductAll(d.fish, d, ItemsOf(d, o)),
              !.paid_runs[o] = @ + 1]

\* Order.calculate_financials over the lines of order o.
calculate_financials(d, o) ==
    LET lines == SelectSeq(d.items, LAMBDA it : it.order = o)
        gross == SumSeq([k \in 1..Len(lines) |-> lines[k].total_price])
        fee == Quantize(gross * 2, 100)
    IN  [d EXCEPT !.orders[o].total_amount = gross,
                  !.orders[o].platform_fee = fee,
                  !.orders[o].fishermen_net_amount = gross - fee]

----------------------------------------------------------------------------
(* Initial state *)

\* The FishermanProfile of a seller who is verified and has an M-Pesa phone.
ReadyProfile ==
    [exists |-> TRUE, is_verified |-> TRUE, mpesa_phone |-> "0711",
     phone |-> "0722", user_phone |-> "0733", mpesa_payment_type |-> "STK_PUSH",
     mpesa_paybill_number |-> "", mpesa_till_number |-> ""]

InitDb ==
    [fish |-> [f \in FishIds |-> [available_weight |-> InitialStock,
                                  status |-> "available",
                                  price_per_kg |-> PricePerKg(f)]],
     profiles |-> [f \in FishIds |-> ReadyProfile],
     buyer |-> [role |-> "customer", email_verified |-> TRUE,
                phone_verified |-> FALSE, phone |-> "0700"],
     stk_requests |-> 0,
     phone_verified |-> [f \in FishIds |-> FALSE],
     verifs |-> <<>>,
     cart |-> [f \in FishIds |-> 0],
     orders |-> <<>>,
     items |-> <<>>,
     txns |-> <<>>,
     deliveries |-> <<>>,
     paid_runs |-> <<>>,
     notifs |-> <<>>,
     feeLogs |-> <<>>,
     logs |-> <<>>,
     audits |-> <<>>]

IdleWorker == [pc |-> "idle"]

Init ==
    /\ db = InitDb
    /\ issued = 0
    /\ workers = [w \in Workers |-> IdleWorker]
    /\ serial = [db |-> InitDb, crossed |-> FALSE]

----------------------------------------------------------------------------
(* Cart *)

\* add_to_cart (POST): a weight that is not positive becomes 1 kg, the
\* weight is clamped to what the listing has left; CartItem.save refuses a
\* weight that is not positive.
add_to_cart(d, f, weight) ==
    LET fishrec == d.fish[f]
        asked == IF weight <= 0 THEN 100 ELSE weight
        w == IF asked > fishrec.available_weight THEN fishrec.available_weight ELSE asked
    IN  IF fishrec.status # "available" \/ w <= 0 THEN d
        ELSE [d EXCEPT !.cart[f] = w]

\* The cart is filled only while the order it leads to fits the bounds.
CartFits(d) ==
    /\ Len(d.orders) < MaxOrders
    /\ Len(d.items) + Cardinality({f \in FishIds : d.cart[f] > 0}) <= MaxItems

AddToCart(f, weight) ==
    /\ CartFits(add_to_cart(db, f, weight))
    /\ db' = add_to_cart(db, f, weight)
    /\ UNCHANGED <<issued, workers, serial>>

----------------------------------------------------------------------------
(* Checkout orchestrator *)

\* A checkout that reads the first cart line only.
CartLinesFirst(d) == SelectSeq(<<"F1">>, LAMBDA f : d.cart[f] > 0)

\* The cart lines of the customer, in the order the loop visits them.
CartLines(d) == SelectSeq(FishOrder, LAMBDA f : d.cart[f] > 0)

\* Python's `a or b` on strings.
OrStr(a, b) == IF a # "" THEN a ELSE b

\* _fisherman_payment_ready
fisherman_payment_ready(profile) ==
    LET payment_phone == OrStr(profile.mpesa_phone, OrStr(profile.phone, profile.user_phone))
        payment_type == OrStr(profile.mpesa_payment_type, "STK_PUSH")
    IN  /\ payment_phone # ""
        /\ ~(payment_type = "PAYBILL" /\ profile.mpesa_paybill_number = "")
        /\ ~(payment_type = "TILL" /\ profile.mpesa_till_number = "")

\* The checks on the listing without the one on the stock left.
LineValidNoStock(d, f) ==
    /\ d.cart[f] > 0
    /\ d.fish[f].price_per_kg > 0
    /\ is_available(d.fish[f])

\* The checks of checkout_process on the listing of a cart line.
LineValid(d, f) ==
    /\ d.cart[f] > 0
    /\ d.fish[f].price_per_kg > 0
    /\ d.cart[f] <= d.fish[f].available_weight
    /\ is_available(d.fish[f])

\* The request-level checks of checkout_process: a cart with lines, and a
\* verified email when the user's role is customer.
RequestValid(d) ==
    /\ CartLines(d) # <<>>
    /\ ~(d.buyer.role = "customer" /\ ~d.buyer.email_verified)

\* The validation loop of checkout_process from line k on: it stops at the
\* first line that fails, and saves the profile of each line that passes
\* (auto-verification, M-Pesa phone filled from the fallback) as it goes.
RECURSIVE ValidateLines(_, _, _)
ValidateLines(d, lines, k) ==
    IF k > Len(lines) THEN [db |-> d, ok |-> TRUE]
    ELSE LET f == lines[k]
             profile == d.profiles[f]
         IN  IF ~LineValid(d, f) \/ ~profile.exists \/ ~fisherman_payment_ready(profile)
             THEN [db |-> d, ok |-> FALSE]
             ELSE ValidateLines(
                      [d EXCEPT !.profiles[f].is_verified = TRUE,
                                !.profiles[f].mpesa_phone =
                                    IF @ # "" THEN @
                                    ELSE OrStr(profile.phone, profile.user_phone)],
                      lines, k + 1)

CheckoutValid(d) ==
    /\ RequestValid(d)
    /\ ValidateLines(d, CartLines(d), 1).ok

\* OrderItem.objects.create for the cart line of item f (OrderItem.save
\* computes the totals).
NewItem(d, o, f) ==
    LET total == LineTotal(d.cart[f], d.fish[f].price_per_kg)
    IN  [order |-> o, fish |-> f,
         weight_kg |-> d.cart[f],
         price_per_kg |-> d.fish[f].price_per_kg,
         total_price |-> total,
         platform_fee |-> LineFee(total),
         fisherman_net_payout |-> LineNet(total),
         fulfillment_status |-> "PENDING"]

\* A creation that records no money on a charge the gateway refused.
NewTxnFailedEmpty(d, o, i, accepted, crid) ==
    [order |-> o, order_item |-> i,
     transaction_id |-> IF accepted THEN <<"MRQ", crid>> ELSE <<"FAILED", o, i>>,
     checkout_request_id |-> IF accepted THEN crid ELSE 0,
     status |-> IF accepted THEN "PENDING" ELSE "FAILED",
     amount |-> IF accepted THEN d.items[i].total_price ELSE 0,
     platform_fee |-> IF accepted THEN d.items[i].platform_fee ELSE 0,
     net_payout |-> IF accepted THEN d.items[i].fisherman_net_payout ELSE 0,
     result_code |-> <<>>,
     result_desc |-> IF accepted THEN "" ELSE "STK push failed",
     mpesa_receipt_number |-> ""]

\* PaymentTransaction.objects.create for line i: PENDING under the gateway's
\* request ids when the STK push was accepted; FAILED under the local id
\* FAILED-<order>-<line>, with no checkout-request id (0), when it was not.
NewTxn(d, o, i, accepted, crid) ==
    [order |-> o, order_item |-> i,
     transaction_id |-> IF accepted THEN <<"MRQ", crid>> ELSE <<"FAILED", o, i>>,
     checkout_request_id |-> IF accepted THEN crid ELSE 0,
     status |-> IF accepted THEN "PENDING" ELSE "FAILED",
     amount |-> d.items[i].total_price,
     platform_fee |-> d.items[i].platform_fee,
     net_payout |-> d.items[i].fisherman_net_payout,
     result_code |-> None,
     result_desc |-> IF accepted THEN "" ELSE "STK push failed",
     mpesa_receipt_number |-> ""]

\* Number of lines among the first k that the gateway accepted.
AcceptedUpTo(lines, gw, k) == Cardinality({j \in 1..k : gw[lines[j]]})

\* The transaction.atomic() block of checkout_process.
\* gw[f] tells whether the gateway accepts the STK push of the line of f;
\* base is the number of ids the gateway has issued so far.
CreateOrder(d, method, gw, base) ==
    LET lines == CartLines(d)
        n == Len(lines)
        o == Len(d.orders) + 1
        first == Len(d.items)
        d1 == [d EXCEPT
                 !.orders = Append(@, [status |-> "PENDING",
                                       fulfillment_method |-> method,
                                       total_amount |-> 0,
                                       platform_fee |-> 0,
                                       fishermen_net_amount |-> 0]),
                 !.deliveries = Append(@, [status |-> "NONE"]),
                 !.paid_runs = Append(@, 0),
                 !.items = @ \o [k \in 1..n |-> NewItem(d, o, lines[k])],
                 !.logs = @ \o [k \in 1..n |-> [RESERVED |-> 1,
                                                PAYMENT_RECEIVED |-> 0,
                                                STOCK_RELEASED |-> 0]]]
        d2 == calculate_financials(d1, o)
        d3 == [d2 EXCEPT
                 !.txns = @ \o [k \in 1..n |->
                            NewTxn(d2, o, first + k, gw[lines[k]],
                                   base + AcceptedUpTo(lines, gw, k))],
                 !.notifs = @ \o [k \in 1..n |-> 0],
                 !.feeLogs = @ \o [k \in 1..n |-> 0],
                 !.stk_requests = @ + n,
                 !.cart = [f \in FishIds |-> 0]]
        anyError == \E k \in 1..n : ~gw[lines[k]]
    IN  IF anyError THEN [d3 EXCEPT !.orders[o].status = "FAILED"] ELSE d3

\* checkout_process (POST), the form fields filled in for the method chosen.
checkout_process(d, method, gw, base) ==
    IF ~RequestValid(d) THEN d
    ELSE LET v == ValidateLines(d, CartLines(d), 1)
         IN  IF ~v.ok THEN v.db ELSE CreateOrder(v.db, method, gw, base)

Checkout(method, gw) ==
    /\ CartFits(db)
    /\ db' = checkout_process(db, method, gw, issued)
    /\ issued' = IF CheckoutValid(db)
                 THEN issued + AcceptedUpTo(CartLines(db), gw, Len(CartLines(db)))
                 ELSE issued
    /\ UNCHANGED <<workers, serial>>

----------------------------------------------------------------------------
(* Gateway callback payloads *)

\* A ResultCode as it arrives in the JSON body: an integer, a numeric string,
\* a float (v in tenths), absent, or a string that is not a number.
RawCodes ==
    {[kind |-> "int", v |-> 0], [kind |-> "int", v |-> 1032],
     [kind |-> "str", v |-> 0], [kind |-> "float", v |-> 5],
     [kind |-> "none", v |-> 0], [kind |-> "text", v |-> 0]}

\* The ResultDesc the gateway sends along with a result code.
DescOf(raw) ==
    CASE raw.kind = "int" /\ raw.v = 0 -> "The service request is processed successfully."
      [] raw.kind = "int" -> "Request cancelled by user"
      [] OTHER -> "Unrecognised result"

\* Python's int(x): the value, or raised (TypeError / ValueError).
PyInt(raw) ==
    CASE raw.kind = "int" -> [raised |-> FALSE, v |-> raw.v]
      [] raw.kind = "str" -> [raised |-> FALSE, v |-> raw.v]
      [] raw.kind = "float" -> [raised |-> FALSE, v |-> raw.v \div 10]
      [] OTHER -> [raised |-> TRUE, v |-> 0]

\* A normalisation that falls back to the success code.
NormalizeCodeLenient(raw) == IF PyInt(raw).raised THEN 0 ELSE PyInt(raw).v

\* try: int(x) except (TypeError, ValueError): -1
NormalizeCode(raw) == IF PyInt(raw).raised THEN -1 ELSE PyInt(raw).v

\* MpesaService.parse_callback_data. A CallbackMetadata item is kept only
\* `if name and value`, so an Amount of 0 is dropped like an absent one.
parse_callback_data(raw) ==
    IF ~raw.wellformed
    THEN [success |-> FALSE, checkout_request_id |-> 0, result_code |-> None,
          result_desc |-> "", amount |-> None, transaction_id |-> None]
    ELSE LET code == NormalizeCode(raw.ResultCode)
         IN  IF code = 0
             THEN [success |-> TRUE,
                   checkout_request_id |-> raw.CheckoutRequestID,
                   result_code |-> Some(code),
                   result_desc |-> raw.ResultDesc,
                   amount |-> IF raw.Amount # None /\ raw.Amount[1] # 0
                              THEN raw.Amount ELSE None,
                   transaction_id |-> raw.MpesaReceiptNumber]
             ELSE [success |-> FALSE,
                   checkout_request_id |-> raw.CheckoutRequestID,
                   result_code |-> Some(code),
                   result_desc |-> raw.ResultDesc,
                   amount |-> None,
                   transaction_id |-> None]

----------------------------------------------------------------------------
(* Callback reconciler *)

PostPayment == {"FULLY_PAID", "DELIVERY_IN_PROGRESS", "DELIVERED"}

\* A seed that ignores the fulfillment method.
DeliverySeedFlat(method) == "DELIVERY_IN_PROGRESS"

\* The Delivery status the reconciler and the fisherman view start from.
DeliverySeed(method) ==
    IF method = "pickup" THEN "READY_FOR_PICKUP" ELSE "DELIVERY_IN_PROGRESS"

\* A reconciler that does not look at the order's other charges.
CountNone(d, o, st) == 0

\* order.transactions.filter(status=st).count()
CountStatus(d, o, st) == Cardinality({t \in TxnsOf(d, o) : d.txns[t].status = st})

\* Model.objects.get_or_create on a table keyed by the PaymentTransaction.
get_or_create(count) == IF count = 0 THEN 1 ELSE count

\* A guard that also stops at a FAILED charge.
TerminalProcessed(txn) == txn.status \in {"COMPLETED", "FAILED"}

\* A reconciler with no idempotency guard.
NeverProcessed(txn) == FALSE

\* The idempotency guard of mpesa_callback.
AlreadyProcessed(txn) == txn.status = "COMPLETED"

\* The ledger block with its comparison the wrong way round.
FirstPaidInverted(itemStatus) == itemStatus = "PAID"

\* The first-transition guard of the line's ledger block.
FirstPaid(itemStatus) == itemStatus # "PAID"

\* The success branch after amount validation. snap holds the
\* PaymentTransaction row, the order status and the line status as they were
\* loaded when the row was locked; counts and stock are read when used.
Settle(d, t, snap, result) ==
    LET o == d.txns[t].order
        i == d.txns[t].order_item
        d1 == [d EXCEPT
                 !.txns[t].mpesa_receipt_number =
                     IF result.transaction_id = None THEN "" ELSE result.transaction_id[1],
                 !.txns[t].result_code = result.result_code,
                 !.txns[t].result_desc = result.result_desc,
                 !.txns[t].status = "COMPLETED"]
        d2 == IF FirstPaid(snap.item_status)
              THEN [d1 EXCEPT
                      !.items[i].fulfillment_status = "PAID",
                      !.logs[i].PAYMENT_RECEIVED = @ + 1,
                      !.notifs[t] = get_or_create(@),
                      !.feeLogs[t] = get_or_create(@)]
              ELSE d1
        pending_count == CountStatus(d2, o, "PENDING")
        failed_count == CountStatus(d2, o, "FAILED")
        d3 == IF snap.order_status \notin PostPayment
              THEN [mark_as_paid(d2, o) EXCEPT !.orders[o].status = "DELIVERY_IN_PROGRESS"]
              ELSE d2
    IN  IF pending_count = 0 /\ failed_count = 0
        THEN [db |-> [d3 EXCEPT !.deliveries[o].status =
                                    DeliverySeed(d.orders[o].fulfillment_method)],
              status |-> 200, message |-> "Payment confirmed. Order is paid."]
        ELSE [db |-> IF snap.order_status = "PENDING"
                     THEN [d2 EXCEPT !.orders[o].status = "PAID"]
                     ELSE d2,
              status |-> 200, message |-> "Payment entry confirmed."]

\* A body whose failure branch leaves the order as it is.
ReconcileOrderKept(d, t, snap, result) ==
    IF snap.txn.status = "COMPLETED"
    THEN [db |-> d, status |-> 200, message |-> "Already processed"]
    ELSE IF result.result_code = <<0>> /\ result.success
    THEN IF result.amount # <<>> /\ Quantize(result.amount[1], 10) # snap.txn.amount
         THEN [db |-> [d EXCEPT
                         !.txns[t].status = "FAILED",
                         !.txns[t].result_desc = "Amount mismatch in callback validation",
                         !.txns[t].result_code = <<0>>],
               status |-> 400, message |-> "Callback amount validation failed"]
         ELSE Settle(d, t, snap, result)
    ELSE [db |-> [d EXCEPT
                    !.txns[t].status = "FAILED",
                    !.txns[t].result_code =
                        IF result.result_code = <<>> THEN <<-1>> ELSE result.result_code,
                    !.txns[t].result_desc = result.result_desc,
                    !.logs[snap.txn.order_item].STOCK_RELEASED = @ + 1],
          status |-> 200, message |-> result.result_desc]

\* An amount check that also turns away a callback carrying no amount.
AmountRequired(result, txn) ==
    \/ result.amount = <<>>
    \/ Quantize(result.amount[1], 10) # txn.amount

\* The amount validation of the success branch: skipped when the callback
\* carries no amount, otherwise the amount quantized to 0.01 is compared with
\* the amount the PaymentTransaction records.
AmountMismatch(result, txn) ==
    /\ result.amount # None
    /\ Quantize(result.amount[1], 10) # txn.amount

\* The body of mpesa_callback for the matched PaymentTransaction t.
Reconcile(d, t, snap, result) ==
    LET txn == snap.txn
        o == txn.order
        i == txn.order_item
        code == IF result.result_code = None THEN -1 ELSE result.result_code[1]
    IN  IF AlreadyProcessed(txn)
        THEN [db |-> d, status |-> 200, message |-> "Already processed"]
        ELSE IF code = 0 /\ result.success
        THEN IF AmountMismatch(result, txn)
             THEN [db |-> [d EXCEPT
                             !.txns[t].status = "FAILED",
                             !.txns[t].result_desc = "Amount mismatch in callback validation",
                             !.txns[t].result_code = Some(code)],
                   status |-> 400, message |-> "Callback amount validation failed"]
             ELSE Settle(d, t, snap, result)
        ELSE [db |-> [d EXCEPT
                        !.txns[t].status = "FAILED",
                        !.txns[t].result_code = Some(code),
                        !.txns[t].result_desc = result.result_desc,
                        !.orders[o].status = "FAILED",
                        !.logs[i].STOCK_RELEASED = @ + 1],
              status |-> 200, message |-> result.result_desc]

Matching(d, crid) == {t \in DOMAIN d.txns : d.txns[t].checkout_request_id = crid}

\* select_for_update().select_related('order', 'order_item', ...).get(...)
Loaded(d, t) ==
    [txn |-> d.txns[t],
     order_status |-> d.orders[d.txns[t].order].status,
     item_status |-> d.items[d.txns[t].order_item].fulfillment_status]

\* The PhoneVerificationTransaction rows that carry the id crid.
VerifMatching(d, crid) ==
    {v \in DOMAIN d.verifs : d.verifs[v].checkout_request_id = crid}

\* The fallback without its guard for a verification already COMPLETED.
ReconcileVerificationUnguarded(d, v, result) ==
    IF result.result_code = Some(0) /\ result.success
    THEN [db |-> [d EXCEPT
                    !.verifs[v].result_code = Some(0),
                    !.verifs[v].result_desc = result.result_desc,
                    !.verifs[v].status = "COMPLETED",
                    !.verifs[v].mpesa_receipt_number =
                        IF result.transaction_id = <<>> THEN ""
                        ELSE result.transaction_id[1],
                    !.phone_verified[d.verifs[v].user] = TRUE],
          status |-> 200, message |-> "Phone verification completed"]
    ELSE [db |-> [d EXCEPT
                    !.verifs[v].result_code = result.result_code,
                    !.verifs[v].result_desc = result.result_desc,
                    !.verifs[v].status = "FAILED"],
          status |-> 200, message |-> "Phone verification failed"]

\* The phone-verification fallback of mpesa_callback for the row v: the
\* seller's User.phone_verified is set on result code 0.
ReconcileVerification(d, v, result) ==
    LET code == IF result.result_code = None THEN -1 ELSE result.result_code[1]
    IN  IF d.verifs[v].status = "COMPLETED"
        THEN [db |-> d, status |-> 200,
              message |-> "Phone verification already processed"]
        ELSE IF code = 0 /\ result.success
        THEN [db |-> [d EXCEPT
                        !.verifs[v].result_code = Some(code),
                        !.verifs[v].result_desc = result.result_desc,
                        !.verifs[v].status = "COMPLETED",
                        !.verifs[v].mpesa_receipt_number =
                            IF result.transaction_id = None THEN ""
                            ELSE result.transaction_id[1],
                        !.phone_verified[d.verifs[v].user] = TRUE],
              status |-> 200, message |-> "Phone verification completed"]
        ELSE [db |-> [d EXCEPT
                        !.verifs[v].result_code = Some(code),
                        !.verifs[v].result_desc = result.result_desc,
                        !.verifs[v].status = "FAILED"],
              status |-> 200, message |-> "Phone verification failed"]

\* mpesa_callback (POST), served start to end with nothing in between.
mpesa_callback(d, raw) ==
    LET result == parse_callback_data(raw)
        crid == result.checkout_request_id
    IN  IF raw.method # "POST"
        THEN [db |-> d, status |-> 400, message |-> "Invalid method"]
        ELSE IF crid = 0
        THEN [db |-> d, status |-> 400, message |-> "Missing checkout request id"]
        ELSE IF Matching(d, crid) = {} /\ VerifMatching(d, crid) = {}
        THEN [db |-> d, status |-> 404, message |-> "Transaction not found"]
        ELSE IF Matching(d, crid) = {}
        THEN ReconcileVerification(d, CHOOSE v \in VerifMatching(d, crid) : TRUE, result)
        ELSE LET t == CHOOSE x \in Matching(d, crid) : TRUE
             IN  Reconcile(d, t, Loaded(d, t), result)

\* The PaymentTransaction a callback body addresses, 0 when it addresses none.
Target(d, raw) ==
    LET crid == parse_callback_data(raw).checkout_request_id
    IN  IF crid = 0 \/ Matching(d, crid) = {} THEN 0
        ELSE CHOOSE x \in Matching(d, crid) : TRUE

TxnAmount(d, crid) == d.txns[CHOOSE x \in Matching(d, crid) : TRUE].amount

\* Settled amounts tried against the charge that carries id crid, in tenths
\* of a cent: absent, zero, exact, within rounding, on the rounding tie, off.
AmountsFor(d, crid) ==
    LET a == TxnAmount(d, crid)
    IN  {None, Some(0), Some(10 * a), Some(10 * a + 4), Some(10 * a + 5),
         Some(10 * a + 10)}

Payload(crid, rc, amt, rcpt) ==
    [method |-> "POST",
     wellformed |-> TRUE, CheckoutRequestID |-> crid, ResultCode |-> rc,
     ResultDesc |-> DescOf(rc), Amount |-> amt, MpesaReceiptNumber |-> rcpt]

Malformed ==
    [method |-> "POST",
     wellformed |-> FALSE, CheckoutRequestID |-> 0,
     ResultCode |-> [kind |-> "none", v |-> 0], ResultDesc |-> "",
     Amount |-> None, MpesaReceiptNumber |-> None]

\* A request to the callback URL that is not a POST.
NonPost == [Malformed EXCEPT !.method = "GET"]

ZeroCode == [kind |-> "int", v |-> 0]

\* The callbacks tried against the issued checkout-request id crid: result
\* code 0 with every amount, with and without a receipt, and every other
\* spelling of a result code.
PayloadsFor(d, crid) ==
    {Payload(crid, ZeroCode, amt, Some("R1")) : amt \in AmountsFor(d, crid)}
    \cup {Payload(crid, ZeroCode, amt, None) : amt \in {None, Some(10 * TxnAmount(d, crid))}}
    \cup {Payload(crid, rc, None, Some("R1")) : rc \in RawCodes \ {ZeroCode}}

\* The ids among the n issued that a charge carries, and those that a phone
\* verification carries.
ChargeIds(d, n) == {crid \in 1..n : Matching(d, crid) # {}}
VerifIds(d, n) == {crid \in 1..n : VerifMatching(d, crid) # {}}

\* The callbacks tried against the id of a phone verification (a charge of
\* 1.00): every spelling of a result code, with and without amount and receipt.
VerifPayloadsFor(crid) ==
    {Payload(crid, rc, amt, rcpt) :
        rc \in RawCodes, amt \in {None, Some(1000)}, rcpt \in {None, Some("PV1")}}

\* Every callback tried in a state where the gateway has issued n ids: a body
\* that does not parse, no id (0), an id never issued (n + 1), each issued id.
Payloads(d, n) ==
    {NonPost, Malformed, Payload(0, ZeroCode, None, Some("R1")),
     Payload(n + 1, ZeroCode, None, Some("R1"))}
    \cup UNION {PayloadsFor(d, crid) : crid \in ChargeIds(d, n)}
    \cup UNION {VerifPayloadsFor(crid) : crid \in VerifIds(d, n)}

\* One callback of each outcome for an issued id: settled with a receipt,
\* settled without amount or receipt, amount off, cancelled by the payer,
\* result code missing.
ArrivalsFor(d, crid) ==
    {Payload(crid, ZeroCode, Some(10 * TxnAmount(d, crid)), Some("R1")),
     Payload(crid, ZeroCode, None, None),
     Payload(crid, ZeroCode, Some(10 * TxnAmount(d, crid) + 10), Some("R1")),
     Payload(crid, [kind |-> "int", v |-> 1032], None, None),
     Payload(crid, [kind |-> "none", v |-> 0], None, None)}

\* The callbacks the gateway delivers in the model's runs; Payloads adds the
\* spellings that end in one of the same outcomes.
Arrivals(d, n) ==
    {NonPost, Malformed, Payload(n + 1, ZeroCode, None, Some("R1"))}
    \cup UNION {ArrivalsFor(d, crid) : crid \in ChargeIds(d, n)}
    \cup UNION {{Payload(crid, ZeroCode, Some(1000), Some("PV1")),
                 Payload(crid, [kind |-> "int", v |-> 1032], None, None)} :
                    crid \in VerifIds(d, n)}

LogsWithinCap(d) ==
    \A i \in DOMAIN d.logs :
        /\ d.logs[i].STOCK_RELEASED <= MaxReleased
        /\ d.logs[i].PAYMENT_RECEIVED <= MaxReleased + 1

Callback(raw) ==
    /\ \A w \in Workers : workers[w].pc = "idle"
    /\ LET r == mpesa_callback(db, raw)
       IN  /\ LogsWithinCap(r.db)
           /\ db' = r.db
    /\ UNCHANGED <<issued, workers, serial>>

----------------------------------------------------------------------------
(* Fulfillment views *)

AuditRow(o, prev, new, by) ==
    [order |-> o, previous_status |-> prev, new_status |-> new, updated_by |-> by]

\* update_order_status (POST) by the fisherman who owns line i.
update_order_status(d, i, new_status) ==
    IF new_status \notin {"PENDING", "READY", "DELIVERED"} THEN d
    ELSE
    LET o == d.items[i].order
        d1 == [d EXCEPT !.items[i] =
                            OrderItemSave(d, [@ EXCEPT !.fulfillment_status = new_status])]
        seed == DeliverySeed(d.orders[o].fulfillment_method)
        previous_status == IF d.deliveries[o].status = "NONE" THEN seed
                           ELSE d.deliveries[o].status
    IN  IF \A j \in ItemsOf(d1, o) :
               d1.items[j].fulfillment_status \in {"READY", "DELIVERED"}
        THEN [d1 EXCEPT !.orders[o].status = seed,
                        !.deliveries[o].status = seed,
                        !.audits = Append(@, AuditRow(o, previous_status, seed, "fisherman"))]
        ELSE d1

\* confirm_delivery (POST) by the customer who placed order o.
confirm_delivery(d, o) ==
    LET d1 == [d EXCEPT !.orders[o].status = "DELIVERED"]
    IN  IF d.deliveries[o].status = "NONE" THEN d1
        ELSE [d1 EXCEPT !.deliveries[o].status = "DELIVERED",
                        !.audits = Append(@, AuditRow(o, d.deliveries[o].status,
                                                      "DELIVERED", "customer"))]

\* The view without its role check.
delivery_status_update_open(d, o, role, new_status) ==
    IF d.deliveries[o].status = "NONE"
    THEN [db |-> d, status |-> 404, message |-> "Not Found"]
    ELSE IF new_status \notin {"READY_FOR_PICKUP", "DELIVERED"}
    THEN [db |-> d, status |-> 400, message |-> "Invalid status"]
    ELSE [db |-> [d EXCEPT
                    !.deliveries[o].status = new_status,
                    !.orders[o].status = new_status,
                    !.audits = Append(@, [order |-> o,
                                          previous_status |-> d.deliveries[o].status,
                                          new_status |-> new_status,
                                          updated_by |-> role])],
          status |-> 200, message |-> new_status]

\* delivery_status_update (POST) by a user of the given role.
delivery_status_update(d, o, role, new_status) ==
    IF role \notin {"delivery", "admin"}
    THEN [db |-> d, status |-> 403, message |-> "Forbidden"]
    ELSE IF d.deliveries[o].status = "NONE"
    THEN [db |-> d, status |-> 404, message |-> "Not Found"]
    ELSE IF new_status \notin {"READY_FOR_PICKUP", "DELIVERED"}
    THEN [db |-> d, status |-> 400, message |-> "Invalid status"]
    ELSE [db |-> [d EXCEPT
                    !.deliveries[o].status = new_status,
                    !.orders[o].status = new_status,
                    !.audits = Append(@, AuditRow(o, d.deliveries[o].status,
                                                  new_status, role))],
          status |-> 200, message |-> new_status]

ItemStatusInputs == {"PENDING", "READY", "DELIVERED", "PAID"}
DeliveryStatusInputs == {"READY_FOR_PICKUP", "DELIVERED", "DELIVERY_IN_PROGRESS"}
Roles == {"delivery", "admin", "customer"}

UpdateOrderStatus(i, new_status) ==
    /\ i \in DOMAIN db.items
    /\ db' = update_order_status(db, i, new_status)
    /\ Len(db'.audits) <= MaxAudit
    /\ UNCHANGED <<issued, workers, serial>>

ConfirmDelivery(o) ==
    /\ o \in DOMAIN db.orders
    /\ db' = confirm_delivery(db, o)
    /\ Len(db'.audits) <= MaxAudit
    /\ UNCHANGED <<issued, workers, serial>>

DeliveryStatusUpdate(o, role, new_status) ==
    /\ o \in DOMAIN db.orders
    /\ LET r == delivery_status_update(db, o, role, new_status)
       IN  /\ Len(r.db.audits) <= MaxAudit
           /\ db' = r.db
    /\ UNCHANGED <<issued, workers, serial>>

----------------------------------------------------------------------------
(* Requests served one at a time *)

Next ==
    \/ \E f \in FishIds : \E w \in CartWeights(f) : AddToCart(f, w)
    \/ \E m \in Methods, gw \in [FishIds -> BOOLEAN] : Checkout(m, gw)
    \/ \E raw \in Arrivals(db, issued) : Callback(raw)

Spec == Init /\ [][Next]_vars

\* The same, with the fisherman's item-status view.
NextFulfil ==
    \/ Next
    \/ \E i \in 1..MaxItems, st \in ItemStatusInputs : UpdateOrderStatus(i, st)

SpecFulfil == Init /\ [][NextFulfil]_vars

NextAll ==
    \/ NextFulfil
    \/ \E o \in 1..MaxOrders : ConfirmDelivery(o)
    \/ \E o \in 1..MaxOrders, role \in Roles, st \in DeliveryStatusInputs :
           DeliveryStatusUpdate(o, role, st)

SpecAll == Init /\ [][NextAll]_vars

----------------------------------------------------------------------------
(* Phone verification *)

\* _initiate_phone_verification_stk for the seller of f: a
\* PhoneVerificationTransaction is created, PENDING under the gateway's next
\* id, only when the gateway accepts the STK push.
initiate_phone_verification_stk(d, f, accepted, base) ==
    IF ~accepted THEN d
    ELSE [d EXCEPT !.verifs = Append(@, [user |-> f,
                                         checkout_request_id |-> base + 1,
                                         status |-> "PENDING",
                                         result_code |-> None,
                                         result_desc |-> "",
                                         mpesa_receipt_number |-> ""])]

StartPhoneVerification(f, accepted) ==
    /\ Len(db.verifs) < MaxVerifs
    /\ db' = initiate_phone_verification_stk(db, f, accepted, issued)
    /\ issued' = IF accepted THEN issued + 1 ELSE issued
    /\ UNCHANGED <<workers, serial>>

NextVerify ==
    \/ Next
    \/ \E f \in FishIds, accepted \in BOOLEAN : StartPhoneVerification(f, accepted)

SpecVerify == Init /\ [][NextVerify]_vars

----------------------------------------------------------------------------
(* Checkout by any buyer from any seller *)

\* Users who can reach checkout_process: a customer with and without a
\* verified email or a phone number, and a user of another role.
BuyerChoices ==
    {[role |-> "customer", email_verified |-> TRUE, phone_verified |-> FALSE, phone |-> "0700"],
     [role |-> "customer", email_verified |-> FALSE, phone_verified |-> FALSE, phone |-> "0700"],
     [role |-> "customer", email_verified |-> TRUE, phone_verified |-> FALSE, phone |-> ""],
     [role |-> "fisherman", email_verified |-> FALSE, phone_verified |-> FALSE, phone |-> "0700"]}

\* Seller profiles: ready; ready but unverified with only a fallback phone;
\* no phone anywhere; Paybill without a number; Till with its number; no
\* FishermanProfile row.
ProfileChoices ==
    {ReadyProfile,
     [ReadyProfile EXCEPT !.is_verified = FALSE, !.mpesa_phone = ""],
     [ReadyProfile EXCEPT !.mpesa_phone = "", !.phone = "", !.user_phone = ""],
     [ReadyProfile EXCEPT !.mpesa_payment_type = "PAYBILL"],
     [ReadyProfile EXCEPT !.mpesa_payment_type = "TILL", !.mpesa_till_number = "5555"],
     [ReadyProfile EXCEPT !.exists = FALSE]}

\* The seller of F1 has one of three of these profiles, the seller of F2 any.
ProfilesOf(f) ==
    IF f = "F1"
    THEN {ReadyProfile,
          [ReadyProfile EXCEPT !.is_verified = FALSE, !.mpesa_phone = ""],
          [ReadyProfile EXCEPT !.exists = FALSE]}
    ELSE ProfileChoices

\* Listing prices of F2, among them one that edit_fish has set to zero.
PriceChoices == {0, PricePerKg("F2")}

InitCheckout ==
    /\ db \in {[InitDb EXCEPT !.buyer = b, !.profiles = pr,
                               !.fish["F2"].price_per_kg = p] :
                  b \in BuyerChoices,
                  pr \in {x \in [FishIds -> ProfileChoices] :
                             \A f \in FishIds : x[f] \in ProfilesOf(f)},
                  p \in PriceChoices}
    /\ issued = 0
    /\ workers = [w \in Workers |-> IdleWorker]
    /\ serial = [db |-> InitDb, crossed |-> FALSE]

SpecCheckout == InitCheckout /\ [][Next]_vars

\* The same requests over listings of other prices per kg, in cents: prices
\* whose line totals and 2% fees fall between two cents, on a half cent, and
\* on a whole cent.
MoneyPrices(f) ==
    IF f = "F1" THEN {50000, 22222, 33333} ELSE {33333, 100000, 125, 75}

InitMoney ==
    /\ db \in {[InitDb EXCEPT !.fish["F1"].price_per_kg = p1,
                               !.fish["F2"].price_per_kg = p2] :
                  p1 \in MoneyPrices("F1"), p2 \in MoneyPrices("F2")}
    /\ issued = 0
    /\ workers = [w \in Workers |-> IdleWorker]
    /\ serial = [db |-> InitDb, crossed |-> FALSE]

SpecMoney == InitMoney /\ [][Next]_vars

----------------------------------------------------------------------------
(* Callbacks served by concurrent workers *)

RECURSIVE FillCart(_, _, _)
FillCart(d, c, k) ==
    IF k > Len(FishOrder) THEN d
    ELSE LET f == FishOrder[k]
         IN  FillCart(IF f \in c
                      THEN add_to_cart(d, f, CHOOSE w \in CartWeights(f) : TRUE)
                      ELSE d,
                      c, k + 1)

\* The databases right after one checkout of a fresh cart.
Placed ==
    {checkout_process(FillCart(InitDb, c, 1), m, gw, 0) :
        c \in (SUBSET FishIds) \ {{}}, m \in Methods, gw \in [FishIds -> BOOLEAN]}

IssuedIn(d) == Cardinality({t \in DOMAIN d.txns : d.txns[t].checkout_request_id # 0})

InitConc ==
    /\ db \in Placed
    /\ issued = IssuedIn(db)
    /\ workers = [w \in Workers |-> IdleWorker]
    /\ serial = [db |-> db, crossed |-> FALSE]

\* The callbacks the gateway delivers while others are in flight.
ConcArrivals(d, n) ==
    UNION {{Payload(crid, ZeroCode, Some(10 * TxnAmount(d, crid)), Some("R1")),
            Payload(crid, ZeroCode, Some(10 * TxnAmount(d, crid) + 10), Some("R1")),
            Payload(crid, [kind |-> "int", v |-> 1032], None, None)} : crid \in 1..n}

\* A worker takes the request and parses the body.
CbArrive(w, raw) ==
    /\ workers[w].pc = "idle"
    /\ Target(db, raw) # 0
    /\ workers' = [workers EXCEPT ![w] = [pc |-> "waiting", raw |-> raw]]
    /\ UNCHANGED <<db, issued, serial>>

\* A lock that every worker is granted at once.
LockIgnored(ws, w, t) == TRUE

\* select_for_update: the row of t is locked by no other open transaction.
LockFree(ws, w, t) ==
    \A v \in Workers \ {w} : ws[v].pc = "locked" => ws[v].t # t

\* The worker gets the row lock and loads the PaymentTransaction with its
\* order and line.
CbLock(w) ==
    /\ workers[w].pc = "waiting"
    /\ LET t == Target(db, workers[w].raw)
       IN  /\ LockFree(workers, w, t)
           /\ workers' = [workers EXCEPT ![w] =
                             [pc |-> "locked", raw |-> workers[w].raw,
                              t |-> t, snap |-> Loaded(db, t)]]
           /\ serial' = [serial EXCEPT !.crossed =
                             @ \/ \E v \in Workers \ {w} :
                                     workers[v].pc = "locked" /\ workers[v].t # t]
    /\ UNCHANGED <<db, issued>>

\* The worker runs the body of mpesa_callback and commits.
CbFinish(w) ==
    /\ workers[w].pc = "locked"
    /\ LET r == Reconcile(db, workers[w].t, workers[w].snap,
                          parse_callback_data(workers[w].raw))
       IN  /\ LogsWithinCap(r.db)
           /\ db' = r.db
    /\ serial' = [serial EXCEPT !.db = mpesa_callback(@, workers[w].raw).db]
    /\ workers' = [workers EXCEPT ![w] = IdleWorker]
    /\ UNCHANGED issued

NextConc ==
    \/ \E w \in Workers : \E raw \in ConcArrivals(db, issued) : CbArrive(w, raw)
    \/ \E w \in Workers : CbLock(w)
    \/ \E w \in Workers : CbFinish(w)

SpecConc == InitConc /\ [][NextConc]_vars

----------------------------------------------------------------------------
(* Callbacks in transactions that overlap *)

\* The committed database cur after the commit of a transaction that read
\* base and left out: the rows it wrote take its values, the ledger rows it
\* inserted are added, every other row stays as committed by the others.
Merge(base, out, cur) ==
    LET rows(tbl) == [k \in DOMAIN cur[tbl] |->
                         IF out[tbl][k] # base[tbl][k] THEN out[tbl][k] ELSE cur[tbl][k]]
    IN  [cur EXCEPT
           !.txns = rows("txns"),
           !.items = rows("items"),
           !.orders = rows("orders"),
           !.deliveries = rows("deliveries"),
           !.fish = rows("fish"),
           !.notifs = rows("notifs"),
           !.feeLogs = rows("feeLogs"),
           !.paid_runs = [k \in DOMAIN cur.paid_runs |->
                            cur.paid_runs[k] + out.paid_runs[k] - base.paid_runs[k]],
           !.logs = [k \in DOMAIN cur.logs |->
                       [a \in DOMAIN cur.logs[k] |->
                           cur.logs[k][a] + out.logs[k][a] - base.logs[k][a]]]]

\* The worker runs the body of mpesa_callback inside its transaction: its
\* queries see what has been committed so far, its writes stay its own.
CbRun(w) ==
    /\ workers[w].pc = "locked"
    /\ "out" \notin DOMAIN workers[w]
    /\ LET r == Reconcile(db, workers[w].t, workers[w].snap,
                          parse_callback_data(workers[w].raw))
       IN  /\ LogsWithinCap(r.db)
           /\ workers' = [workers EXCEPT ![w] =
                             [pc |-> "locked", raw |-> workers[w].raw,
                              t |-> workers[w].t, snap |-> workers[w].snap,
                              base |-> db, out |-> r.db]]
    /\ UNCHANGED <<db, issued, serial>>

\* The transaction commits and the row lock is released.
CbCommit(w) ==
    /\ workers[w].pc = "locked"
    /\ "out" \in DOMAIN workers[w]
    /\ db' = Merge(workers[w].base, workers[w].out, db)
    /\ serial' = [serial EXCEPT !.db = mpesa_callback(@, workers[w].raw).db]
    /\ workers' = [workers EXCEPT ![w] = IdleWorker]
    /\ UNCHANGED issued

NextSkew ==
    \/ \E w \in Workers : \E raw \in ConcArrivals(db, issued) : CbArrive(w, raw)
    \/ \E w \in Workers : CbLock(w)
    \/ \E w \in Workers : CbRun(w)
    \/ \E w \in Workers : CbCommit(w)

SpecSkew == InitConc /\ [][NextSkew]_vars

----------------------------------------------------------------------------
(* Idempotency of the callback reconciler *)

\* C1: whenever a callback completes a charge, handing the reconciler the same
\* callback once more changes nothing and answers 200 "Already processed":
\* the charge is COMPLETED, it is the only charge under that checkout-request
\* id, and it has one PlatformFeeLog and one SellerNotification.
C1_IdempotentSuccess ==
    \A raw \in Payloads(db, issued) :
        LET t == Target(db, raw)
            first == mpesa_callback(db, raw)
            second == mpesa_callback(first.db, raw)
        IN  (t # 0 /\ db.txns[t].status # "COMPLETED"
                   /\ first.db.txns[t].status = "COMPLETED")
            => /\ first.status = 200
               /\ second.status = 200
               /\ second.message = "Already processed"
               /\ second.db = first.db
               /\ {x \in DOMAIN second.db.txns :
                      /\ second.db.txns[x].checkout_request_id = raw.CheckoutRequestID
                      /\ second.db.txns[x].status = "COMPLETED"} = {t}
               /\ second.db.feeLogs[t] = 1
               /\ second.db.notifs[t] = 1

\* A charge has been completed and the same callback is answered as a duplicate.
C1_Witness ==
    \E t \in DOMAIN db.txns :
        LET raw == Payload(db.txns[t].checkout_request_id, ZeroCode,
                           Some(10 * db.txns[t].amount), Some("R1"))
        IN  /\ db.txns[t].status = "COMPLETED"
            /\ db.txns[t].mpesa_receipt_number = "R1"
            /\ db.notifs[t] = 1 /\ db.feeLogs[t] = 1
            /\ mpesa_callback(db, raw).message = "Already processed"

\* C2: a callback of any content that addresses a COMPLETED charge is answered
\* 200 and leaves every table as it was.
C2_CompletedAbsorbing ==
    \A raw \in Payloads(db, issued) :
        LET t == Target(db, raw)
            r == mpesa_callback(db, raw)
        IN  (t # 0 /\ db.txns[t].status = "COMPLETED")
            => r.status = 200 /\ r.db = db

\* A failure callback and a callback with a wrong amount are both absorbed by
\* a COMPLETED charge whose line the fisherman has since moved on.
C2_Witness ==
    \E t \in DOMAIN db.txns :
        LET crid == db.txns[t].checkout_request_id
            cancel == Payload(crid, [kind |-> "int", v |-> 1032], None, Some("R1"))
            off == Payload(crid, ZeroCode, Some(10 * db.txns[t].amount + 10), Some("R1"))
        IN  /\ db.txns[t].status = "COMPLETED"
            /\ db.items[db.txns[t].order_item].fulfillment_status = "READY"
            /\ cancel \in Payloads(db, issued) /\ off \in Payloads(db, issued)
            /\ mpesa_callback(db, cancel).db = db
            /\ mpesa_callback(db, off).db = db

\* C3: in every state each charge has one SellerNotification, one
\* PlatformFeeLog and one PAYMENT_RECEIVED stock-log row when it is COMPLETED,
\* and none of each when it is not.
C3_LedgerOncePerCharge ==
    \A t \in DOMAIN db.txns :
        LET n == IF db.txns[t].status = "COMPLETED" THEN 1 ELSE 0
        IN  /\ db.notifs[t] = n
            /\ db.feeLogs[t] = n
            /\ db.logs[db.txns[t].order_item].PAYMENT_RECEIVED = n

\* One charge completed, its line since updated by the fisherman, next to a
\* charge that failed.
C3_Witness ==
    \E t, u \in DOMAIN db.txns :
        /\ db.txns[t].status = "COMPLETED"
        /\ db.items[db.txns[t].order_item].fulfillment_status \in {"READY", "PENDING"}
        /\ db.notifs[t] = 1
        /\ db.txns[u].status = "FAILED"
        /\ db.txns[u].result_code # None
        /\ db.notifs[u] = 0

----------------------------------------------------------------------------
(* Validation of the callback *)

\* C5: a result-code-0 callback that carries an amount differing, at two
\* decimals, from the amount of a charge that is not COMPLETED is answered
\* 400, marks the charge FAILED with the amount-mismatch reason, and changes
\* nothing but that charge.
C5_AmountMismatchRejected ==
    \A raw \in Payloads(db, issued) :
        LET t == Target(db, raw)
            r == mpesa_callback(db, raw)
        IN  (/\ t # 0
             /\ raw.wellformed
             /\ ~PyInt(raw.ResultCode).raised /\ PyInt(raw.ResultCode).v = 0
             /\ raw.Amount # None
             /\ Quantize(raw.Amount[1], 10) # db.txns[t].amount
             /\ db.txns[t].status # "COMPLETED")
            => /\ r.status = 400
               /\ r.db.txns[t].status = "FAILED"
               /\ r.db.txns[t].result_desc = "Amount mismatch in callback validation"
               /\ r.db = [db EXCEPT !.txns[t] = r.db.txns[t]]

\* C6: a callback whose ResultCode is absent or is not a number is given the
\* code -1 and handled as a failure: it completes no charge, marks no line
\* PAID, adds no ledger row, and leaves stock and Delivery rows alone; a
\* charge it addresses that is not COMPLETED ends FAILED with code -1.
C6_UnparseableCodeFails ==
    \A raw \in Payloads(db, issued) :
        LET t == Target(db, raw)
            r == mpesa_callback(db, raw)
        IN  (raw.wellformed /\ PyInt(raw.ResultCode).raised)
            => /\ NormalizeCode(raw.ResultCode) = -1
               /\ ~parse_callback_data(raw).success
               /\ \A x \in DOMAIN db.txns :
                      r.db.txns[x].status = "COMPLETED" => db.txns[x].status = "COMPLETED"
               /\ \A i \in DOMAIN db.items :
                      r.db.items[i].fulfillment_status = "PAID"
                          => db.items[i].fulfillment_status = "PAID"
               /\ r.db.notifs = db.notifs
               /\ r.db.feeLogs = db.feeLogs
               /\ \A i \in DOMAIN db.logs :
                      r.db.logs[i].PAYMENT_RECEIVED = db.logs[i].PAYMENT_RECEIVED
               /\ r.db.fish = db.fish
               /\ r.db.deliveries = db.deliveries
               /\ (t # 0 /\ db.txns[t].status # "COMPLETED")
                      => /\ r.db.txns[t].status = "FAILED"
                         /\ r.db.txns[t].result_code = Some(-1)

\* A charge failed with code -1 by a callback without a usable result code,
\* next to a line whose fisherman has marked it READY.
C6_Witness ==
    \E t \in DOMAIN db.txns :
        /\ db.txns[t].status = "FAILED"
        /\ db.txns[t].result_code = Some(-1)
        /\ db.logs[db.txns[t].order_item].STOCK_RELEASED = 1
        /\ db.notifs[t] = 0
        /\ \E i \in DOMAIN db.items : db.items[i].fulfillment_status = "READY"

----------------------------------------------------------------------------
(* Full settlement *)

AllCompleted(d, o) == \A t \in TxnsOf(d, o) : d.txns[t].status = "COMPLETED"

SeedFor(method) == IF method = "pickup" THEN "READY_FOR_PICKUP" ELSE "DELIVERY_IN_PROGRESS"

\* C7: an order whose charges are all COMPLETED is in a post-payment status
\* and has its Delivery row, READY_FOR_PICKUP for pickup and
\* DELIVERY_IN_PROGRESS for delivery; an order with a charge still to
\* complete has no Delivery row, and no callback writes one unless it leaves
\* every charge of the order COMPLETED.
C7_FullSettlement ==
    /\ \A o \in DOMAIN db.orders :
          IF AllCompleted(db, o)
          THEN /\ db.orders[o].status \in {"FULLY_PAID", "DELIVERY_IN_PROGRESS", "DELIVERED"}
               /\ db.deliveries[o].status = SeedFor(db.orders[o].fulfillment_method)
          ELSE db.deliveries[o].status = "NONE"
    /\ \A raw \in Payloads(db, issued) :
          LET r == mpesa_callback(db, raw)
          IN  \A o \in DOMAIN db.orders :
                  /\ (AllCompleted(r.db, o) /\ ~AllCompleted(db, o))
                        => /\ r.db.orders[o].status \in
                                 {"FULLY_PAID", "DELIVERY_IN_PROGRESS", "DELIVERED"}
                           /\ r.db.deliveries[o].status =
                                 SeedFor(db.orders[o].fulfillment_method)
                  /\ r.db.deliveries[o] # db.deliveries[o] => AllCompleted(r.db, o)

\* A pickup order of two lines with both charges completed, and a second
\* order still waiting for its payment.
C7_Witness ==
    \E o \in DOMAIN db.orders :
        /\ Cardinality(TxnsOf(db, o)) = 2
        /\ AllCompleted(db, o)
        /\ db.orders[o].fulfillment_method = "pickup"
        /\ db.deliveries[o].status = "READY_FOR_PICKUP"
        /\ db.orders[o].status = "DELIVERY_IN_PROGRESS"

\* C8: in every step that takes an order into a post-payment status, the
\* available weight of the catalog item of each of its lines goes down by
\* that line's weight.
C8_StockDeductedOnFullPayment ==
    [][\A o \in DOMAIN db.orders :
          (db.orders[o].status \notin PostPayment /\ db'.orders[o].status \in PostPayment)
          => \A i \in ItemsOf(db, o) :
                 db'.fish[db.items[i].fish].available_weight =
                     db.fish[db.items[i].fish].available_weight - db.items[i].weight_kg]_vars

----------------------------------------------------------------------------
(* Checkout *)

CartSet(d) == {f \in FishIds : d.cart[f] > 0}

Gateways == [FishIds -> BOOLEAN]

----------------------------------------------------------------------------
(* Concurrent callbacks for one charge *)

LinesOn(d, f) == {i \in DOMAIN d.items : d.items[i].fish = f}

----------------------------------------------------------------------------
(* Checkout validation *)

\* A cart line that checkout must refuse: the listing is not available, has
\* less stock than the line asks for or a price that is not positive, the
\* line's weight is not positive, or the seller has no profile or no complete
\* payout destination.
LineRefused(d, f) ==
    \/ d.cart[f] <= 0
    \/ d.fish[f].price_per_kg <= 0
    \/ d.cart[f] > d.fish[f].available_weight
    \/ d.fish[f].status # "available"
    \/ d.fish[f].available_weight <= 0
    \/ ~d.profiles[f].exists
    \/ (d.profiles[f].mpesa_phone = "" /\ d.profiles[f].phone = ""
            /\ d.profiles[f].user_phone = "")
    \/ (d.profiles[f].mpesa_payment_type = "PAYBILL"
            /\ d.profiles[f].mpesa_paybill_number = "")
    \/ (d.profiles[f].mpesa_payment_type = "TILL"
            /\ d.profiles[f].mpesa_till_number = "")

\* C11: when the cart is empty or any one of its lines must be refused,
\* checkout_process creates no order, line or charge, sends no STK push, and
\* leaves the cart as it was.
C11_ValidationAborts ==
    \A method \in Methods, gw \in Gateways :
        (CartSet(db) = {} \/ \E f \in CartSet(db) : LineRefused(db, f))
        => LET d2 == checkout_process(db, method, gw, issued)
           IN  /\ d2.orders = db.orders
               /\ d2.items = db.items
               /\ d2.txns = db.txns
               /\ d2.logs = db.logs
               /\ d2.stk_requests = db.stk_requests
               /\ d2.cart = db.cart

\* A request that passes the buyer checks with a cart line of a ready seller
\* that asks for more than an order paid in the meantime has left in stock.
C11_Witness ==
    /\ RequestValid(db)
    /\ \E f \in CartSet(db) :
          /\ db.cart[f] > db.fish[f].available_weight
          /\ db.fish[f].available_weight > 0
          /\ db.fish[f].price_per_kg > 0
          /\ db.profiles[f] = ReadyProfile
    /\ \A method \in Methods, gw \in Gateways :
          checkout_process(db, method, gw, issued).orders = db.orders

\* C12: a checkout that ends in a validation failure changes nothing at all,
\* the seller profiles of the lines validated before the failing one
\* included.
C12_ValidationChangesNothing ==
    \A method \in Methods, gw \in Gateways :
        (CartSet(db) = {} \/ \E f \in CartSet(db) : LineRefused(db, f))
        => checkout_process(db, method, gw, issued) = db

\* C13: a buyer of any role without a verified contact channel or without a
\* phone number gets no order and no STK push out of checkout_process.
C13_BuyerMustBeVerified ==
    \A method \in Methods, gw \in Gateways :
        ~(/\ db.buyer.email_verified \/ db.buyer.phone_verified
          /\ db.buyer.phone # "")
        => LET d2 == checkout_process(db, method, gw, issued)
           IN  /\ d2.orders = db.orders
               /\ d2.txns = db.txns
               /\ d2.stk_requests = db.stk_requests

----------------------------------------------------------------------------
(* Order financials *)

\* q is num/den rounded to the nearest integer, a tie going to the even one.
IsRounded(q, num, den) ==
    LET diff == IF num >= q * den THEN num - q * den ELSE q * den - num
    IN  /\ 2 * diff <= den
        /\ 2 * diff = den => q % 2 = 0

LinesOfOrder(o) == SelectSeq(db.items, LAMBDA it : it.order = o)

\* C14: for every order, in cents: total_amount is the sum of its lines'
\* total_price, platform_fee is 2% of total_amount rounded to the cent,
\* fishermen_net_amount is total_amount - platform_fee, and every line's
\* total_price is weight x unit price rounded to the cent.
C14_OrderFinancials ==
    /\ \A o \in DOMAIN db.orders :
          LET ord == db.orders[o]
              lines == LinesOfOrder(o)
          IN  /\ ord.total_amount = SumSeq([k \in 1..Len(lines) |-> lines[k].total_price])
              /\ IsRounded(ord.platform_fee, ord.total_amount * 2, 100)
              /\ ord.fishermen_net_amount = ord.total_amount - ord.platform_fee
    /\ \A i \in DOMAIN db.items :
          IsRounded(db.items[i].total_price,
                    db.items[i].weight_kg * db.items[i].price_per_kg, 100)

\* An order of gross 1000.00 with fee 20.00 and net 980.00, next to a line of
\* 1.50 kg at 333.33 whose exact total 499.995 sits on a half cent.
C14_Witness ==
    /\ \E o \in DOMAIN db.orders :
          /\ db.orders[o].total_amount = 100000
          /\ db.orders[o].platform_fee = 2000
          /\ db.orders[o].fishermen_net_amount = 98000
    /\ \E i \in DOMAIN db.items :
          /\ db.items[i].weight_kg = 150 /\ db.items[i].price_per_kg = 33333
          /\ db.items[i].total_price = 50000

\* C15: for every order, the order's fee is the sum of its lines' fees and
\* the order's net amount is the sum of its lines' net payouts.
C15_FeeSumsAgree ==
    \A o \in DOMAIN db.orders :
        LET lines == LinesOfOrder(o)
        IN  /\ db.orders[o].platform_fee =
                   SumSeq([k \in 1..Len(lines) |-> lines[k].platform_fee])
            /\ db.orders[o].fishermen_net_amount =
                   SumSeq([k \in 1..Len(lines) |-> lines[k].fisherman_net_payout])

----------------------------------------------------------------------------
(* Terminal states *)

\* C16: a charge whose status is COMPLETED or FAILED keeps that status
\* through every later step.
C16_ChargeTerminal ==
    [][\A t \in DOMAIN db.txns :
          db.txns[t].status \in {"COMPLETED", "FAILED"}
          => db'.txns[t].status = db.txns[t].status]_vars

\* C17: an order whose status is FAILED or CANCELLED keeps that status and
\* its Delivery as they are through every later step, and no step that
\* leaves every other order alone takes stock.
C17_OrderTerminal ==
    [][\A o \in DOMAIN db.orders :
          db.orders[o].status \in {"FAILED", "CANCELLED"}
          => /\ db'.orders[o].status = db.orders[o].status
             /\ db'.deliveries[o] = db.deliveries[o]
             /\ (\A o2 \in DOMAIN db.orders \ {o} : db'.orders[o2] = db.orders[o2])
                    => db'.fish = db.fish]_vars

----------------------------------------------------------------------------
(* Fulfillment and payment *)

\* C18: an order has a Delivery, or the status DELIVERY_IN_PROGRESS,
\* READY_FOR_PICKUP or DELIVERED, only if every one of its charges is
\* COMPLETED.
C18_FulfillmentGatedByPayment ==
    \A o \in DOMAIN db.orders :
        (\/ db.deliveries[o].status # "NONE"
         \/ db.orders[o].status \in {"DELIVERY_IN_PROGRESS", "READY_FOR_PICKUP", "DELIVERED"})
        => \A t \in TxnsOf(db, o) : db.txns[t].status = "COMPLETED"

----------------------------------------------------------------------------
(* Callback responses *)

\* The outcome the callback endpoint owes to the request raw in the current
\* state: 400 to a request that is not a POST, to a body that does not parse
\* and to one without a checkout-request id; 404 to an id no charge carries;
\* for the charge the id addresses, 200 with nothing changed when it is
\* already COMPLETED, 400 to a success callback whose amount is not the
\* charge's amount, 200 to any other success callback; and nothing changed by
\* any outcome other than 200 and the amount mismatch.
CallbackOutcome(raw) ==
    LET r == mpesa_callback(db, raw)
        carried == {t \in DOMAIN db.txns :
                       db.txns[t].checkout_request_id = raw.CheckoutRequestID}
        addressed == raw.method = "POST" /\ raw.wellformed
                        /\ raw.CheckoutRequestID # 0 /\ carried # {}
        open == addressed /\ \A t \in carried : db.txns[t].status # "COMPLETED"
        paid == NormalizeCode(raw.ResultCode) = 0
        mismatch == /\ open /\ paid /\ raw.Amount # None
                    /\ \A t \in carried : Quantize(raw.Amount[1], 10) # db.txns[t].amount
    IN  /\ raw.method # "POST" => r.status = 400
        /\ (raw.method = "POST" /\ (~raw.wellformed \/ raw.CheckoutRequestID = 0))
               => r.status = 400
        /\ (raw.method = "POST" /\ raw.wellformed /\ raw.CheckoutRequestID # 0
               /\ carried = {}) => r.status = 404
        /\ (addressed /\ ~open) => (r.status = 200 /\ r.db = db)
        /\ mismatch => r.status = 400
        /\ (open /\ paid /\ ~mismatch) => r.status = 200
        /\ (r.status # 200 /\ ~mismatch) => r.db = db

\* C19: every request to the callback endpoint gets the outcome of the
\* table: 404 for an unknown id, 400 for a body that does not parse or has no
\* id, 400 for an amount mismatch, 200 for a successful reconciliation and
\* for the idempotent no-op, 400 for a request that is not a POST; and every
\* outcome other than 200 and the amount mismatch changes nothing.
C19_CallbackOutcomes ==
    \A raw \in Payloads(db, issued) : CallbackOutcome(raw)

----------------------------------------------------------------------------
(* Delivery audit trail *)

\* The step changes the status of the Delivery of order o and appends one
\* audit row that records it: the order, the status before (when there was
\* a Delivery before), the status after, and a user as its author.
AuditedChange(o) ==
    /\ Len(db'.audits) = Len(db.audits) + 1
    /\ LET a == db'.audits[Len(db'.audits)]
       IN  /\ a.order = o
           /\ a.new_status = db'.deliveries[o].status
           /\ db.deliveries[o].status # "NONE"
                  => a.previous_status = db.deliveries[o].status
           /\ a.updated_by \in {"fisherman", "customer"} \cup Roles

\* C20: every step that changes the status of a Delivery, the reconciler's
\* creation of the Delivery on full settlement included, appends exactly one
\* DeliveryAuditLog with the status before and after and the acting user.
C20_DeliveryChangesAudited ==
    [][\A o \in DOMAIN db.deliveries :
          db'.deliveries[o].status # db.deliveries[o].status => AuditedChange(o)]_vars

----------------------------------------------------------------------------
(* Delivery lifecycle *)

\* Audit rows kept while one placed order is followed to its delivery.
MaxAuditDeliver == 2

\* One request to a fulfillment view: the fisherman's item-status view, the
\* customer's confirmation, the delivery role's status update.
Fulfilment(cap) ==
    /\ \/ \E i \in DOMAIN db.items, st \in ItemStatusInputs :
              db' = update_order_status(db, i, st)
       \/ \E o \in DOMAIN db.orders : db' = confirm_delivery(db, o)
       \/ \E o \in DOMAIN db.orders, role \in Roles, st \in DeliveryStatusInputs :
              db' = delivery_status_update(db, o, role, st).db
    /\ Len(db'.audits) <= cap
    /\ UNCHANGED <<issued, workers, serial>>

\* One order just placed, then its callbacks and the fulfillment views.
InitDeliver ==
    /\ db \in Placed
    /\ issued = IssuedIn(db)
    /\ workers = [w \in Workers |-> IdleWorker]
    /\ serial = [db |-> InitDb, crossed |-> FALSE]

NextDeliver ==
    \/ \E raw \in Arrivals(db, issued) : Callback(raw)
    \/ Fulfilment(MaxAuditDeliver)

SpecDeliver == InitDeliver /\ [][NextDeliver]_vars

\* C21: once the Delivery of an order and the order are both DELIVERED, every
\* later step leaves both DELIVERED.
C21_DeliveredTerminal ==
    [][\A o \in DOMAIN db.orders :
          (db.deliveries[o].status = "DELIVERED" /\ db.orders[o].status = "DELIVERED")
          => /\ db'.deliveries[o].status = "DELIVERED"
             /\ db'.orders[o].status = "DELIVERED"]_vars

\* C22: delivery_status_update answers 403 to a role that is neither delivery
\* nor admin and 400 to a status other than READY_FOR_PICKUP or DELIVERED,
\* changing nothing in either case; an authorized DELIVERED update of a
\* Delivery sets the Delivery and the order to DELIVERED and answers 200.
C22_DeliveryStatusUpdate ==
    \A o \in DOMAIN db.orders, role \in Roles, st \in DeliveryStatusInputs :
        LET r == delivery_status_update(db, o, role, st)
            exists == db.deliveries[o].status # "NONE"
        IN  /\ role \notin {"delivery", "admin"} => (r.status = 403 /\ r.db = db)
            /\ (role \in {"delivery", "admin"} /\ exists
                    /\ st \notin {"READY_FOR_PICKUP", "DELIVERED"})
                   => (r.status = 400 /\ r.db = db)
            /\ (role \in {"delivery", "admin"} /\ exists /\ st = "DELIVERED")
                   => /\ r.status = 200
                      /\ r.db.deliveries[o].status = "DELIVERED"
                      /\ r.db.orders[o].status = "DELIVERED"

\* A Delivery that is ready for pickup: the customer is refused, the
\* delivery role's DELIVERED update goes through.
C22_Witness ==
    \E o \in DOMAIN db.orders :
        /\ db.deliveries[o].status = "READY_FOR_PICKUP"
        /\ db.orders[o].status # "DELIVERED"
        /\ delivery_status_update(db, o, "customer", "DELIVERED").status = 403
        /\ delivery_status_update(db, o, "delivery", "DELIVERED").db.orders[o].status
               = "DELIVERED"

----------------------------------------------------------------------------
(* Phone-verification callbacks *)

\* C23: a callback whose id matches no charge but a phone verification
\* changes no order, charge, line, Delivery, stock or ledger record; on
\* result code 0 it completes the verification and sets the user's
\* phone_verified; on an already COMPLETED verification it changes nothing
\* and answers success; and no callback at all takes a phone_verified back
\* from true to false.
C23_PhoneVerificationCallback ==
    \A raw \in Payloads(db, issued) :
        LET r == mpesa_callback(db, raw)
            charges == {t \in DOMAIN db.txns :
                           db.txns[t].checkout_request_id = raw.CheckoutRequestID}
            rows == {v \in DOMAIN db.verifs :
                        db.verifs[v].checkout_request_id = raw.CheckoutRequestID}
        IN  /\ \A f \in FishIds : db.phone_verified[f] => r.db.phone_verified[f]
            /\ (raw.method = "POST" /\ raw.wellformed /\ charges = {} /\ rows # {})
               => \A v \in rows :
                    /\ r.db.orders = db.orders /\ r.db.txns = db.txns
                    /\ r.db.items = db.items /\ r.db.deliveries = db.deliveries
                    /\ r.db.fish = db.fish /\ r.db.logs = db.logs
                    /\ r.db.feeLogs = db.feeLogs /\ r.db.notifs = db.notifs
                    /\ r.db.audits = db.audits
                    /\ db.verifs[v].status = "COMPLETED"
                           => (r.db = db /\ r.status = 200)
                    /\ (db.verifs[v].status # "COMPLETED"
                            /\ NormalizeCode(raw.ResultCode) = 0)
                           => /\ r.db.verifs[v].status = "COMPLETED"
                              /\ r.db.phone_verified[db.verifs[v].user]
                              /\ r.status = 200

\* A pending verification next to a placed order with an open charge: the
\* success callback for the verification's id verifies the seller's phone.
C23_Witness ==
    \E v \in DOMAIN db.verifs :
        /\ db.verifs[v].status = "PENDING"
        /\ ~db.phone_verified[db.verifs[v].user]
        /\ \E t \in DOMAIN db.txns : db.txns[t].status = "PENDING"
        /\ LET r == mpesa_callback(db, Payload(db.verifs[v].checkout_request_id,
                                               ZeroCode, Some(1000), Some("PV1")))
           IN  /\ r.db.phone_verified[db.verifs[v].user]
               /\ r.db.txns = db.txns

----------------------------------------------------------------------------
(* Concurrent callbacks for the charges of one order *)

----------------------------------------------------------------------------
(* Gateway failure *)

\* C25: a callback with a result code other than 0 for a PENDING charge is
\* answered 200; it marks the charge FAILED with the callback's result code
\* and description and the order FAILED, adds one STOCK_RELEASED entry for
\* the charge's line, and leaves stock, line statuses, Deliveries, the other
\* ledger rows and the other charges as they were.
C25_GatewayFailure ==
    \A raw \in Payloads(db, issued) :
        LET t == Target(db, raw)
            r == mpesa_callback(db, raw)
        IN  (/\ t # 0
             /\ db.txns[t].status = "PENDING"
             /\ raw.ResultCode.kind = "int" /\ raw.ResultCode.v # 0)
            => LET o == db.txns[t].order
                   i == db.txns[t].order_item
               IN  /\ r.status = 200
                   /\ r.db.txns[t] = [db.txns[t] EXCEPT
                                        !.status = "FAILED",
                                        !.result_code = Some(raw.ResultCode.v),
                                        !.result_desc = raw.ResultDesc]
                   /\ \A u \in DOMAIN db.txns \ {t} : r.db.txns[u] = db.txns[u]
                   /\ r.db.orders = [db.orders EXCEPT ![o].status = "FAILED"]
                   /\ r.db.logs = [db.logs EXCEPT ![i].STOCK_RELEASED = @ + 1]
                   /\ r.db.fish = db.fish
                   /\ r.db.items = db.items
                   /\ r.db.deliveries = db.deliveries
                   /\ r.db.notifs = db.notifs
                   /\ r.db.feeLogs = db.feeLogs
                   /\ r.db.audits = db.audits

\* An order of two lines, one charge COMPLETED and the order PAID, whose
\* other charge is PENDING when the payer cancels it.
C25_Witness ==
    \E t \in DOMAIN db.txns :
        /\ db.txns[t].status = "PENDING"
        /\ db.orders[db.txns[t].order].status = "PAID"
        /\ LET r == mpesa_callback(db, Payload(db.txns[t].checkout_request_id,
                                               [kind |-> "int", v |-> 1032], None, None))
           IN  /\ r.db.txns[t].status = "FAILED"
               /\ r.db.orders[db.txns[t].order].status = "FAILED"

----------------------------------------------------------------------------
(* Partial settlement *)

\* C26: when a callback completes a charge of an order that has another
\* charge still PENDING, a PENDING order becomes PAID with stock and
\* Deliveries untouched; and when the order is FAILED and another charge is
\* still PENDING or FAILED, the order's status stays as it is.
C26_PartialSettlement ==
    \A raw \in Payloads(db, issued) :
        LET t == Target(db, raw)
            r == mpesa_callback(db, raw)
        IN  (/\ t # 0
             /\ db.txns[t].status # "COMPLETED"
             /\ r.db.txns[t].status = "COMPLETED")
            => LET o == db.txns[t].order
                   others == TxnsOf(db, o) \ {t}
               IN  /\ (/\ db.orders[o].status = "PENDING"
                       /\ \E u \in others : db.txns[u].status = "PENDING")
                      => /\ r.db.orders[o].status = "PAID"
                         /\ r.db.fish = db.fish
                         /\ r.db.deliveries = db.deliveries
                   /\ (/\ db.orders[o].status = "FAILED"
                       /\ \E u \in others : db.txns[u].status \in {"PENDING", "FAILED"})
                      => /\ r.db.orders[o].status = "FAILED"
                         /\ r.db.fish = db.fish
                         /\ r.db.deliveries = db.deliveries

\* An order of two lines with both charges PENDING: the success callback for
\* the first makes the order PAID and takes no stock.
C26_Witness ==
    \E t \in DOMAIN db.txns :
        LET o == db.txns[t].order
            r == mpesa_callback(db, Payload(db.txns[t].checkout_request_id, ZeroCode,
                                            Some(10 * db.txns[t].amount), Some("R1")))
        IN  /\ db.orders[o].status = "PENDING"
            /\ \A u \in TxnsOf(db, o) : db.txns[u].status = "PENDING"
            /\ Cardinality(TxnsOf(db, o)) = 2
            /\ r.db.orders[o].status = "PAID"
            /\ r.db.fish = db.fish

----------------------------------------------------------------------------
(* Callbacks for a FAILED charge *)

\* C27: a callback for a charge that is already FAILED is not answered as a
\* no-op: it gets the answer and leaves the charge in the status that the
\* same callback gives a PENDING charge, and the charge's result code and
\* result description are overwritten with the callback's (the mismatch
\* reason when the amount is off).
C27_FailedChargeReprocessed ==
    \A raw \in Payloads(db, issued) :
        LET t == Target(db, raw)
            r == mpesa_callback(db, raw)
            p == mpesa_callback([db EXCEPT !.txns[t].status = "PENDING"], raw)
        IN  (t # 0 /\ db.txns[t].status = "FAILED")
            => /\ r.message # "Already processed"
               /\ r.status = p.status /\ r.message = p.message
               /\ r.db.txns[t] = p.db.txns[t]
               /\ r.db.txns[t].status \in {"COMPLETED", "FAILED"}
               /\ r.db.txns[t].result_code = Some(NormalizeCode(raw.ResultCode))
               /\ r.db.txns[t].result_desc =
                      IF r.status = 400 THEN "Amount mismatch in callback validation"
                      ELSE raw.ResultDesc

\* A charge the payer cancelled (code 1032, "Request cancelled by user"); the
\* success callback that follows completes it under code 0 and its own
\* description.
C27_Witness ==
    \E t \in DOMAIN db.txns :
        /\ db.txns[t].status = "FAILED"
        /\ db.txns[t].result_code = Some(1032)
        /\ LET r == mpesa_callback(db, Payload(db.txns[t].checkout_request_id, ZeroCode,
                                               Some(10 * db.txns[t].amount), Some("R1")))
           IN  /\ r.db.txns[t].status = "COMPLETED"
               /\ r.db.txns[t].result_code = Some(0)
               /\ r.db.txns[t].result_desc = DescOf(ZeroCode)

----------------------------------------------------------------------------
(* Settled orders *)

\* C28: with no callback in progress, an order none of whose charges is
\* PENDING is FAILED when one of its charges is FAILED and in a post-payment
\* state when all of them are COMPLETED; it is never left PENDING or PAID.
C28_SettledOrderStatus ==
    (\A w \in Workers : workers[w].pc = "idle")
    => \A o \in DOMAIN db.orders :
          (\A t \in TxnsOf(db, o) : db.txns[t].status \in {"COMPLETED", "FAILED"})
          => IF \E t \in TxnsOf(db, o) : db.txns[t].status = "FAILED"
             THEN db.orders[o].status = "FAILED"
             ELSE db.orders[o].status \in PostPayment

----------------------------------------------------------------------------
(* Stock deduction *)

\* C29: Order.mark_as_paid never runs a second time for an order, and a step
\* in which it runs is a callback that completes a charge and leaves every
\* charge of the order COMPLETED.
C29_StockDeductedOnce ==
    [][\A o \in DOMAIN db.orders :
          /\ db'.paid_runs[o] <= 1
          /\ db'.paid_runs[o] > db.paid_runs[o]
                => /\ \A t \in TxnsOf(db', o) : db'.txns[t].status = "COMPLETED"
                   /\ \E t \in TxnsOf(db, o) :
                         db.txns[t].status # "COMPLETED"]_vars

\* A pickup order whose stock has been deducted and which the fisherman's
\* status update has since moved to READY_FOR_PICKUP.
C29_Witness ==
    \E o \in DOMAIN db.orders :
        /\ db.paid_runs[o] = 1
        /\ db.orders[o].status = "READY_FOR_PICKUP"
        /\ \E a \in DOMAIN db.audits : db.audits[a].order = o
        /\ \A i \in ItemsOf(db, o) :
              db.fish[db.items[i].fish].available_weight < InitialStock

----------------------------------------------------------------------------
(* Overselling *)

\* The weight of item f sold: the lines of f whose charge is COMPLETED.
SoldWeight(f) ==
    LET paid == SelectSeq([i \in DOMAIN db.items |-> i],
                          LAMBDA i : /\ db.items[i].fish = f
                                     /\ \E t \in DOMAIN db.txns :
                                           /\ db.txns[t].order_item = i
                                           /\ db.txns[t].status = "COMPLETED")
    IN  SumSeq([k \in 1..Len(paid) |-> db.items[paid[k]].weight_kg])

\* C30: for every catalog item, the total weight of its order lines whose
\* charge is COMPLETED never exceeds the weight the item was listed with.
C30_NoOverselling ==
    \A f \in FishIds : SoldWeight(f) <= InitialStock

----------------------------------------------------------------------------
(* Amount requested from the gateway *)

\* float(order_item.total_price) followed by int(amount): the whole units of
\* a non-negative amount held in cents, the cents cut off.
PyIntOfFloat(cents) == cents \div 100

\* The "Amount" field of the STK push for line i, in whole units:
\* str(int(amount)) with amount = float(order_item.total_price).
stk_push_amount(d, i) == PyIntOfFloat(d.items[i].total_price)

\* The success callback that reports, for the charge t, exactly the amount
\* its STK push requested (in tenths of a cent).
RequestedCallback(d, t) ==
    Payload(d.txns[t].checkout_request_id, ZeroCode,
            Some(1000 * stk_push_amount(d, d.txns[t].order_item)), Some("R1"))

\* C31: for every charge the gateway accepted, the amount requested from the
\* gateway equals the charge's recorded amount, and while the charge is
\* PENDING a success callback reporting exactly the requested amount is
\* answered 200 and completes the charge.
C31_RequestedAmountRecorded ==
    \A t \in DOMAIN db.txns :
        db.txns[t].checkout_request_id # 0 =>
            /\ 100 * stk_push_amount(db, db.txns[t].order_item) = db.txns[t].amount
            /\ db.txns[t].status = "PENDING" =>
                  LET r == mpesa_callback(db, RequestedCallback(db, t))
                  IN  /\ r.status = 200
                      /\ r.db.txns[t].status = "COMPLETED"

----------------------------------------------------------------------------
(* Success callback without an amount *)

\* C32: a callback whose result code normalises to 0 and which carries no
\* Amount, addressed to a charge that is not COMPLETED, is answered 200 and
\* leaves the charge COMPLETED with result code 0, the callback's ResultDesc
\* and the callback's receipt id, the empty string when the receipt is absent.
C32_SuccessWithoutAmount ==
    \A raw \in Payloads(db, issued) :
        LET t == Target(db, raw)
            r == mpesa_callback(db, raw)
        IN  (/\ t # 0
             /\ raw.wellformed
             /\ raw.method = "POST"
             /\ NormalizeCode(raw.ResultCode) = 0
             /\ raw.Amount = None
             /\ db.txns[t].status # "COMPLETED")
            => /\ r.status = 200
               /\ r.db.txns[t].status = "COMPLETED"
               /\ r.db.txns[t].result_code = Some(0)
               /\ r.db.txns[t].result_desc = raw.ResultDesc
               /\ r.db.txns[t].mpesa_receipt_number =
                      IF raw.MpesaReceiptNumber = None THEN ""
                      ELSE raw.MpesaReceiptNumber[1]

\* A charge completed by a success callback that carried neither amount nor
\* receipt: the receipt is stored as the empty string.
C32_Witness ==
    \E t \in DOMAIN db.txns :
        /\ db.txns[t].status = "COMPLETED"
        /\ db.txns[t].result_code = Some(0)
        /\ db.txns[t].result_desc = DescOf(ZeroCode)
        /\ db.txns[t].mpesa_receipt_number = ""

----------------------------------------------------------------------------
(* Charge issuance inside the order's transaction *)

\* What the gateway answers to the STK push of a line: HTTP 200 with the
\* request ids, a refusal (stk_push returns success False), or HTTP 200 with
\* a body that lacks MerchantRequestID / CheckoutRequestID, which stk_push
\* passes on as success True with None ids.
GatewayReplies == {"accepted", "refused", "no_ids"}

\* The position of the first line whose reply lacks the ids, 0 when none does.
FirstNoIds(lines, reply) ==
    IF \E k \in 1..Len(lines) : reply[lines[k]] = "no_ids"
    THEN CHOOSE k \in 1..Len(lines) :
             /\ reply[lines[k]] = "no_ids"
             /\ \A j \in 1..(k - 1) : reply[lines[j]] # "no_ids"
    ELSE 0

\* The ids the gateway hands out during one run of the issuance loop: one per
\* accepted line, up to the line at which the loop raises.
IdsHandedOut(lines, reply) ==
    LET stop == FirstNoIds(lines, reply)
        last == IF stop = 0 THEN Len(lines) ELSE stop - 1
    IN  Cardinality({j \in 1..last : reply[lines[j]] = "accepted"})

\* checkout_process with the three gateway replies. The issuance loop runs
\* inside the transaction.atomic() block: PaymentTransaction.objects.create
\* with checkout_request_id=None raises IntegrityError (CharField, not null),
\* the exception leaves the block and the order, its lines, the log rows and
\* the charges already created are rolled back. The profile saves of the
\* validation loop are outside the block and stay.
checkout_process_replies(d, method, reply, base) ==
    IF ~RequestValid(d) THEN d
    ELSE LET v == ValidateLines(d, CartLines(d), 1)
         IN  IF ~v.ok THEN v.db
             ELSE IF FirstNoIds(CartLines(d), reply) # 0 THEN v.db
             ELSE CreateOrder(v.db, method,
                              [f \in FishIds |-> reply[f] = "accepted"], base)

\* The ids among the n handed out that no PaymentTransaction carries.
Orphans(d, n) == n - Cardinality(ChargeIds(d, n))

MaxOrphans == 1     \* ids handed out to checkouts that were rolled back

CheckoutReplies(method, reply) ==
    /\ CartFits(db)
    /\ FirstNoIds(CartLines(db), reply) # 0 =>
          Orphans(db, issued) + IdsHandedOut(CartLines(db), reply) <= MaxOrphans
    /\ db' = checkout_process_replies(db, method, reply, issued)
    /\ issued' = IF CheckoutValid(db)
                 THEN issued + IdsHandedOut(CartLines(db), reply)
                 ELSE issued
    /\ UNCHANGED <<workers, serial>>

NextIssue ==
    \/ \E f \in FishIds : \E w \in CartWeights(f) : AddToCart(f, w)
    \/ \E m \in Methods, reply \in [FishIds -> GatewayReplies] : CheckoutReplies(m, reply)
    \/ \E raw \in Arrivals(db, issued) : Callback(raw)

SpecIssue == Init /\ [][NextIssue]_vars

\* C33: every checkout-request id the gateway hands out while checkout_process
\* runs is carried, when checkout_process has returned, by a persisted PENDING
\* charge; in every later state a charge carries it, its order and line exist,
\* and a callback for it is not answered 404.
C33_AcceptedChargesPersist ==
    [][\A crid \in 1..issued' :
          /\ Matching(db', crid) # {}
          /\ crid > issued =>
                \A t \in Matching(db', crid) : db'.txns[t].status = "PENDING"
          /\ \A t \in Matching(db', crid) :
                /\ db'.txns[t].order \in DOMAIN db'.orders
                /\ db'.txns[t].order_item \in DOMAIN db'.items
          /\ mpesa_callback(db', Payload(crid, ZeroCode, None, None)).status # 404]_vars

----------------------------------------------------------------------------
(* Catalog edits *)

\* The prices and weights a fisherman posts to edit_fish for item f.
EditPrices(f) == {PricePerKg(f), 22222}
EditWeights == {InitialStock}

\* edit_fish (POST) by the owner of listing f: price and available weight are
\* overwritten with the posted values; the listing's status is not touched.
edit_fish(d, f, price, weight) ==
    [d EXCEPT !.fish[f].price_per_kg = price,
              !.fish[f].available_weight = weight]

EditFish(f, price, weight) ==
    /\ \A w \in Workers : workers[w].pc = "idle"
    /\ db' = edit_fish(db, f, price, weight)
    /\ UNCHANGED <<issued, workers, serial>>

\* One order just placed, then its callbacks, the fisherman's item-status
\* view and edits of the catalog.
InitCatalog ==
    /\ db \in Placed
    /\ issued = IssuedIn(db)
    /\ workers = [w \in Workers |-> IdleWorker]
    /\ serial = [db |-> InitDb, crossed |-> FALSE]

NextCatalog ==
    \/ \E raw \in Arrivals(db, issued) : Callback(raw)
    \/ \E i \in 1..MaxItems, st \in ItemStatusInputs : UpdateOrderStatus(i, st)
    \/ \E f \in FishIds : \E price \in EditPrices(f), weight \in EditWeights :
           EditFish(f, price, weight)

SpecCatalog == InitCatalog /\ [][NextCatalog]_vars

\* The pricing of a line, of a charge and of an order.
ItemPricing(it) ==
    <<it.price_per_kg, it.weight_kg, it.total_price, it.platform_fee,
      it.fisherman_net_payout>>
TxnPricing(txn) == <<txn.amount, txn.platform_fee, txn.net_payout>>
OrderPricing(ord) == <<ord.total_amount, ord.platform_fee, ord.fishermen_net_amount>>

\* C34: no step changes the unit price, weight, total, fee or net payout of
\* an existing line, the amount, fee or net payout of an existing charge, or
\* the gross, fee or net amount of an existing order.
C34_PricingFrozen ==
    [][/\ \A i \in DOMAIN db.items : ItemPricing(db'.items[i]) = ItemPricing(db.items[i])
       /\ \A t \in DOMAIN db.txns : TxnPricing(db'.txns[t]) = TxnPricing(db.txns[t])
       /\ \A o \in DOMAIN db.orders :
             OrderPricing(db'.orders[o]) = OrderPricing(db.orders[o])]_vars

\* A line whose catalog price has since been edited, paid by a callback and
\* then re-saved by the fisherman's item-status update, still at the price it
\* was ordered at.
C34_Witness ==
    \E i \in DOMAIN db.items :
        /\ db.items[i].fulfillment_status = "READY"
        /\ db.fish[db.items[i].fish].price_per_kg # db.items[i].price_per_kg
        /\ \E t \in DOMAIN db.txns :
              db.txns[t].order_item = i /\ db.txns[t].status = "COMPLETED"

----------------------------------------------------------------------------
(* Charges mirror their lines *)

\* The amounts of the charges of order o, in the order they were created.
ChargeAmounts(d, o) ==
    LET mine == SelectSeq(d.txns, LAMBDA txn : txn.order = o)
    IN  [k \in 1..Len(mine) |-> mine[k].amount]

\* C35: every charge, PENDING or FAILED at creation, belongs to a line of its
\* own order and records that line's total, fee and net payout as its amount,
\* platform_fee and net_payout, with net_payout = amount - platform_fee; each
\* line has exactly one charge, and the amounts of an order's charges add up
\* to the order's total_amount.
C35_ChargesMirrorLines ==
    /\ \A t \in DOMAIN db.txns :
          LET txn == db.txns[t]
              it == db.items[txn.order_item]
          IN  /\ it.order = txn.order
              /\ txn.amount = it.total_price
              /\ txn.platform_fee = it.platform_fee
              /\ txn.net_payout = it.fisherman_net_payout
              /\ txn.net_payout = txn.amount - txn.platform_fee
    /\ \A i \in DOMAIN db.items :
          Cardinality({t \in DOMAIN db.txns : db.txns[t].order_item = i}) = 1
    /\ \A o \in DOMAIN db.orders :
          SumSeq(ChargeAmounts(db, o)) = db.orders[o].total_amount

\* An order of two lines, one charge accepted and one refused by the gateway,
\* the refused one for a total with non-zero cents.
C35_Witness ==
    \E o \in DOMAIN db.orders :
        /\ Cardinality(TxnsOf(db, o)) = 2
        /\ \E t \in TxnsOf(db, o) :
              /\ db.txns[t].transaction_id[1] = "FAILED"
              /\ db.txns[t].amount % 100 # 0
        /\ \E t \in TxnsOf(db, o) : db.txns[t].transaction_id[1] = "MRQ"

----------------------------------------------------------------------------
(* Order status and Delivery status *)

\* C36: whenever an order has a Delivery, the order's status equals the
\* Delivery's status (READY_FOR_PICKUP, DELIVERY_IN_PROGRESS or DELIVERED); in
\* particular a pickup order whose Delivery the reconciler has created on full
\* payment has order status READY_FOR_PICKUP.
C36_OrderAgreesWithDelivery ==
    \A o \in DOMAIN db.orders :
        db.deliveries[o].status # "NONE" =>
            /\ db.orders[o].status = db.deliveries[o].status
            /\ db.orders[o].status \in
                   {"READY_FOR_PICKUP", "DELIVERY_IN_PROGRESS", "DELIVERED"}

----------------------------------------------------------------------------
(* Checkout-request ids *)

\* C37: no two charges, those created FAILED at issuance included, carry the
\* same checkout-request id, so that a lookup by checkout-request id matches
\* at most one charge.
C37_CheckoutRequestIdUnique ==
    \A t1, t2 \in DOMAIN db.txns :
        t1 # t2 => db.txns[t1].checkout_request_id # db.txns[t2].checkout_request_id

----------------------------------------------------------------------------
(* Stock never negative *)

\* C38: after any sequence of checkouts and callbacks no listing has a
\* negative available_weight; reduce_stock of a line's weight on a listing
\* either returns True, subtracts the whole weight and marks the listing
\* 'sold' exactly when nothing is left, or, when the weight exceeds what is
\* available, returns False and leaves the listing as it is; and a checkout
\* whose cart holds a listing that is 'sold' or has zero weight fails
\* validation and creates no order.
C38_StockNeverNegative ==
    \A f \in FishIds :
        LET fishrec == db.fish[f]
        IN  /\ fishrec.available_weight >= 0
            /\ fishrec.status = "sold" <=> fishrec.available_weight = 0
            /\ \A w \in CartWeights(f) :
                  LET r == reduce_stock(fishrec, w)
                      d == [db EXCEPT !.cart[f] = w]
                  IN  /\ IF w <= fishrec.available_weight
                         THEN /\ r.ok
                              /\ r.fish.available_weight = fishrec.available_weight - w
                              /\ r.fish.status =
                                     IF fishrec.available_weight = w THEN "sold"
                                     ELSE fishrec.status
                         ELSE ~r.ok /\ r.fish = fishrec
                      /\ (fishrec.status = "sold" \/ fishrec.available_weight = 0) =>
                            /\ ~CheckoutValid(d)
                            /\ \A method \in Methods, gw \in Gateways :
                                  checkout_process(d, method, gw, issued).orders = d.orders

\* A listing sold out by the deductions of two paid orders: weight 0, status
\* 'sold', both of its lines PAID.
C38_Witness ==
    \E f \in FishIds :
        /\ db.fish[f].status = "sold"
        /\ db.fish[f].available_weight = 0
        /\ Cardinality({i \in DOMAIN db.items :
                            /\ db.items[i].fish = f
                            /\ db.items[i].fulfillment_status = "PAID"}) = 2

============================================================================
